---- MODULE Spec2Model ----
(***************************************************************************)
(* ascross (src/ascross.py): the grid parser parse_grid, the clue mapper   *)
(* map_clues and their caller parse_crossword, as a state machine.         *)
(*                                                                         *)
(* Texts are sequences of one-character strings; "\n" is the line break.   *)
(* Sequences are 1-based here where the Python lists are 0-based: row and  *)
(* column indices are the Python index plus one. The walk's loop counter i *)
(* keeps its Python value (0, 1, ...), so prefix[i] is prefix[i + 1] here. *)
(***************************************************************************)
EXTENDS Integers, Sequences, FiniteSets, TLC

VARIABLES
    pc,                       \* position of the program
    input_grid,               \* cw.config['grid'], the raw grid text
    grid,                     \* cw.grid, the parsed matrix of cells
    next_starting_point_num,  \* parse_grid's counter (line 68)
    puzzles,                  \* number of puzzles parsed so far (main, line 436)
    direction,                \* map_clues' direction argument
    lines_read,               \* clue lines the for loop of line 129 has taken
    prefix,                   \* the current clue line's prefix (line 132)
    clues,                    \* map_clues' list clues (line 127)
    used_starting_points,     \* map_clues' set (line 128)
    clues_horizontal,         \* cw.clues_horizontal (line 50)
    clues_vertical,           \* cw.clues_vertical (line 51)
    error,                    \* the exception that ended the program, or "none"
    walk                      \* the locals of the candidate walk (lines 138-173)

vars == <<pc, input_grid, grid, next_starting_point_num, puzzles, direction,
          lines_read, prefix, clues, used_starting_points, clues_horizontal,
          clues_vertical, error, walk>>

---------------------------------------------------------------------------
(* Bounds of the model                                                     *)

MaxParseTextLen == 3
MaxTextLen == 4
MaxPuzzles == 2
MaxClues == 2
MaxPrefixLen == 2

(* The cap of the walk's for loop, range(1000) (line 143).                 *)
StepCap == 1000

---------------------------------------------------------------------------
(* Characters                                                              *)

NL == "\n"
Glyphs == {".", "|", "-", ")", "("}

\* the grid texts the parser is run on: every kind of character
ParseChars == {" ", "#", "A", "a"} \cup Glyphs
\* the grid texts the clue mapper is run on
MapChars == {"A", "b", "|", "-", ")", "("}
\* the characters of the clue prefixes
PrefixChars == {"A", "b"}
ClueBody == <<"x">>

\* str.upper() on one character: only the letters change
Upper(c) ==
    CASE c = "a" -> "A"
      [] c = "b" -> "B"
      [] OTHER -> c

\* str.isupper() on one character
IsUpper(c) == c \in {"A", "B"}

RECURSIVE UpperSeq(_)
UpperSeq(s) == IF s = <<>> THEN <<>> ELSE <<Upper(Head(s))>> \o UpperSeq(Tail(s))

Max(a, b) == IF a >= b THEN a ELSE b

\* [' '] * n
RECURSIVE Spaces(_)
Spaces(n) == IF n <= 0 THEN <<>> ELSE <<" ">> \o Spaces(n - 1)

\* str.split('\n'): the pieces between the separators, at least one piece
RECURSIVE SplitAcc(_, _, _)
SplitAcc(s, sep, cur) ==
    IF s = <<>> THEN <<cur>>
    ELSE IF Head(s) = sep THEN <<cur>> \o SplitAcc(Tail(s), sep, <<>>)
    ELSE SplitAcc(Tail(s), sep, Append(cur, Head(s)))

Split(s, sep) == SplitAcc(s, sep, <<>>)

---------------------------------------------------------------------------
(* Cells and parse_grid                                                    *)

NoSolution == "None"

\* Cell(), the dataclass defaults
Cell == [kind |-> "OUTSIDE", solution |-> NoSolution, is_starting_point |-> FALSE,
         starting_point_num |-> -1, wall_right |-> FALSE, wall_bottom |-> FALSE,
         arrow_down |-> FALSE, arrow_right |-> FALSE]

\* parse_extended refusing to extend an OUTSIDE cell
parse_extended_NotOutside(cell, c) ==
    IF cell.kind = "OUTSIDE" THEN <<FALSE, cell>>
    ELSE CASE c = "." -> <<TRUE, cell>>
           [] c = "|" -> <<TRUE, [cell EXCEPT !.wall_right = TRUE]>>
           [] c = "-" -> <<TRUE, [cell EXCEPT !.wall_bottom = TRUE]>>
           [] c = ")" -> <<TRUE, [cell EXCEPT !.arrow_down = TRUE]>>
           [] c = "(" -> <<TRUE, [cell EXCEPT !.arrow_right = TRUE]>>
           [] OTHER -> <<FALSE, cell>>

\* parse_extended: <<extended, the cell after the call>>
parse_extended(cell, c) ==
    CASE c = "." -> <<TRUE, cell>>
      [] c = "|" -> <<TRUE, [cell EXCEPT !.wall_right = TRUE]>>
      [] c = "-" -> <<TRUE, [cell EXCEPT !.wall_bottom = TRUE]>>
      [] c = ")" -> <<TRUE, [cell EXCEPT !.arrow_down = TRUE]>>
      [] c = "(" -> <<TRUE, [cell EXCEPT !.arrow_right = TRUE]>>
      [] OTHER -> <<FALSE, cell>>

\* the match of lines 81-92: the cell for character c, and the counter after it
ClassifyCell(c, next_num) ==
    CASE c = " " -> [cell |-> [Cell EXCEPT !.kind = "OUTSIDE"], next |-> next_num]
      [] c = "#" -> [cell |-> [Cell EXCEPT !.kind = "BLOCKED"], next |-> next_num]
      [] OTHER ->
            IF IsUpper(c)
            THEN [cell |-> [Cell EXCEPT !.kind = "LETTER", !.solution = Upper(c),
                                        !.is_starting_point = TRUE,
                                        !.starting_point_num = next_num],
                  next |-> next_num + 1]
            ELSE [cell |-> [Cell EXCEPT !.kind = "LETTER", !.solution = Upper(c)],
                  next |-> next_num]

\* the inner while loop (lines 77-104) from column col_idx on
RECURSIVE ParseRow(_, _, _, _, _)
ParseRow(line, input_col_count, col_idx, row, next_num) ==
    IF col_idx > input_col_count THEN [row |-> row, next |-> next_num]
    ELSE LET cl == ClassifyCell(line[col_idx], next_num)
             ext == IF col_idx + 1 <= input_col_count
                    THEN parse_extended(cl.cell, line[col_idx + 1])
                    ELSE <<FALSE, cl.cell>>
         IN ParseRow(line, input_col_count,
                     IF ext[1] THEN col_idx + 2 ELSE col_idx + 1,
                     Append(row, ext[2]), cl.next)

\* the outer while loop (lines 73-105) from row row_idx on
RECURSIVE ParseRows(_, _, _, _)
ParseRows(padded, row_idx, g, next_num) ==
    IF row_idx > Len(padded) THEN [grid |-> g, next |-> next_num]
    ELSE LET r == ParseRow(padded[row_idx], Len(padded[1]), 1, <<>>, next_num)
         IN ParseRows(padded, row_idx + 1, Append(g, r.row), r.next)

RECURSIVE MaxLineLength(_)
MaxLineLength(ls) ==
    IF ls = <<>> THEN 0 ELSE Max(Len(Head(ls)), MaxLineLength(Tail(ls)))

\* lines 63-66 padding every line one space too far
PadLines_OneMore(ls, max_line_len) ==
    [k \in 1..Len(ls) |-> ls[k] \o Spaces(max_line_len + 1 - Len(ls[k]))]

\* lines 63-66: every line right-padded with spaces to max_line_len
PadLines(ls, max_line_len) ==
    [k \in 1..Len(ls) |-> ls[k] \o Spaces(max_line_len - Len(ls[k]))]

\* the process-wide counter some variant of the tool used: numbering goes on
\* from where the call before left it
FirstStartingPointNum_Global(left_over) == left_over

\* the counter parse_grid starts from (line 68); its argument is the value
\* the counter was left with by the call before
FirstStartingPointNum(left_over) == 1

\* parse_grid: the grid, and the value the counter ends with
parse_grid(text, left_over) ==
    LET input_lines == Split(text, NL)
        max_line_len == MaxLineLength(input_lines)
    IN ParseRows(PadLines(input_lines, max_line_len), 1, <<>>,
                 FirstStartingPointNum(left_over))

---------------------------------------------------------------------------
(* Input texts                                                             *)

\* the texts of at most n characters, each one of chars or a line break
TextsOver(chars, n) == UNION {[1..k -> chars \cup {NL}] : k \in 0..n}

ParseTexts == TextsOver(ParseChars, MaxParseTextLen)
MapTexts == TextsOver(MapChars, MaxTextLen)

NoWalk == [i |-> 0, letter_row_idx |-> 0, letter_col_idx |-> 0,
           current_direction |-> "none", word_length |-> 0, right_word |-> TRUE,
           done |-> TRUE]

\* main before its loop over the input files (line 434): nothing is read yet
Init ==
    /\ pc = "next_file"
    /\ input_grid = <<>>
    /\ grid = <<>>
    /\ next_starting_point_num = 1
    /\ puzzles = 0
    /\ direction = "none"
    /\ lines_read = 0
    /\ prefix = <<>>
    /\ clues = <<>>
    /\ used_starting_points = {}
    /\ clues_horizontal = <<>>
    /\ clues_vertical = <<>>
    /\ error = "none"
    /\ walk = NoWalk

\* main's loop takes the next file (lines 435-437) and parse_crossword loads
\* it and parses its grid (lines 42-45); parse_grid's counter is what the
\* call before left
ParseGridOver(texts) ==
    /\ pc = "next_file"
    /\ puzzles < MaxPuzzles
    /\ \E text \in texts :
          LET r == parse_grid(text, next_starting_point_num)
          IN /\ input_grid' = text
             /\ grid' = r.grid
             /\ next_starting_point_num' = r.next
    /\ puzzles' = puzzles + 1
    /\ pc' = "parsed"
    /\ UNCHANGED <<direction, lines_read, prefix, clues, used_starting_points,
                   clues_horizontal, clues_vertical, error, walk>>

\* cws.append(...) (line 437): the finished Crossword joins the list cws, of
\* which the model keeps nothing
AppendCrossword ==
    /\ pc = "parsed"
    /\ input_grid' = <<>>
    /\ grid' = <<>>
    /\ pc' = "next_file"
    /\ UNCHANGED <<next_starting_point_num, puzzles, direction, lines_read, prefix,
                   clues, used_starting_points, clues_horizontal, clues_vertical,
                   error, walk>>

ParseAnyGrid == ParseGridOver(ParseTexts)
ParseNext == ParseAnyGrid \/ AppendCrossword
ParseSpec == Init /\ [][ParseNext]_vars

---------------------------------------------------------------------------
(* map_clues: the walk from one candidate starting cell (lines 138-173)    *)

\* lines 138-142: the locals before the for loop
WalkStart(start_row_idx, start_col_idx, dir) ==
    [i |-> 0, letter_row_idx |-> start_row_idx, letter_col_idx |-> start_col_idx,
     current_direction |-> dir, word_length |-> 0, right_word |-> TRUE,
     done |-> FALSE]

\* the iteration with `letter_row_idx += 1` (line 173) left out
WalkIter_NoRowAdvance(g, pre, w) ==
    IF w.i >= StepCap THEN [w EXCEPT !.done = TRUE]
    ELSE IF \/ w.letter_row_idx > Len(g)
            \/ w.letter_col_idx > Len(g[w.letter_row_idx])
            \/ g[w.letter_row_idx][w.letter_col_idx].kind # "LETTER"
    THEN [w EXCEPT !.right_word = IF w.i = 1 \/ w.i < Len(pre) - 1 THEN FALSE ELSE @,
                   !.done = TRUE]
    ELSE LET letter_cell == g[w.letter_row_idx][w.letter_col_idx]
         IN IF Len(pre) > w.i /\ letter_cell.solution # pre[w.i + 1]
            THEN [w EXCEPT !.right_word = FALSE, !.done = TRUE]
            ELSE LET d == IF letter_cell.arrow_down THEN "VERTICAL"
                          ELSE IF letter_cell.arrow_right THEN "HORIZONTAL"
                          ELSE w.current_direction
                     counted == [w EXCEPT !.word_length = @ + 1,
                                          !.current_direction = d]
                 IN IF d = "HORIZONTAL"
                    THEN IF letter_cell.wall_right
                         THEN [counted EXCEPT !.done = TRUE]
                         ELSE [counted EXCEPT !.letter_col_idx = @ + 1, !.i = @ + 1]
                    ELSE IF letter_cell.wall_bottom
                         THEN [counted EXCEPT !.done = TRUE]
                         ELSE [counted EXCEPT !.i = @ + 1]

\* the iteration with the walls looked at before the cell is counted
WalkIter_WallUncounted(g, pre, w) ==
    IF w.i >= StepCap THEN [w EXCEPT !.done = TRUE]
    ELSE IF \/ w.letter_row_idx > Len(g)
            \/ w.letter_col_idx > Len(g[w.letter_row_idx])
            \/ g[w.letter_row_idx][w.letter_col_idx].kind # "LETTER"
    THEN [w EXCEPT !.right_word = IF w.i = 1 \/ w.i < Len(pre) - 1 THEN FALSE ELSE @,
                   !.done = TRUE]
    ELSE LET letter_cell == g[w.letter_row_idx][w.letter_col_idx]
         IN IF Len(pre) > w.i /\ letter_cell.solution # pre[w.i + 1]
            THEN [w EXCEPT !.right_word = FALSE, !.done = TRUE]
            ELSE LET d == IF letter_cell.arrow_down THEN "VERTICAL"
                          ELSE IF letter_cell.arrow_right THEN "HORIZONTAL"
                          ELSE w.current_direction
                     turned == [w EXCEPT !.current_direction = d]
                     counted == [turned EXCEPT !.word_length = @ + 1]
                 IN IF d = "HORIZONTAL"
                    THEN IF letter_cell.wall_right
                         THEN [turned EXCEPT !.done = TRUE]
                         ELSE [counted EXCEPT !.letter_col_idx = @ + 1, !.i = @ + 1]
                    ELSE IF letter_cell.wall_bottom
                         THEN [turned EXCEPT !.done = TRUE]
                         ELSE [counted EXCEPT !.letter_row_idx = @ + 1, !.i = @ + 1]

\* One iteration of `for i in range(1000)` (lines 143-173). done is set by a
\* break and by the range running out (i = StepCap); a break leaves i at the
\* iteration it happened in.
WalkIter(g, pre, w) ==
    IF w.i >= StepCap THEN [w EXCEPT !.done = TRUE]
    ELSE IF \/ w.letter_row_idx > Len(g)
            \/ w.letter_col_idx > Len(g[w.letter_row_idx])
            \/ g[w.letter_row_idx][w.letter_col_idx].kind # "LETTER"
    THEN [w EXCEPT !.right_word = IF w.i = 1 \/ w.i < Len(pre) - 1 THEN FALSE ELSE @,
                   !.done = TRUE]
    ELSE LET letter_cell == g[w.letter_row_idx][w.letter_col_idx]
         IN IF Len(pre) > w.i /\ letter_cell.solution # pre[w.i + 1]
            THEN [w EXCEPT !.right_word = FALSE, !.done = TRUE]
            ELSE LET d == IF letter_cell.arrow_down THEN "VERTICAL"
                          ELSE IF letter_cell.arrow_right THEN "HORIZONTAL"
                          ELSE w.current_direction
                     counted == [w EXCEPT !.word_length = @ + 1,
                                          !.current_direction = d]
                 IN IF d = "HORIZONTAL"
                    THEN IF letter_cell.wall_right
                         THEN [counted EXCEPT !.done = TRUE]
                         ELSE [counted EXCEPT !.letter_col_idx = @ + 1, !.i = @ + 1]
                    ELSE IF letter_cell.wall_bottom
                         THEN [counted EXCEPT !.done = TRUE]
                         ELSE [counted EXCEPT !.letter_row_idx = @ + 1, !.i = @ + 1]

\* the whole for loop
RECURSIVE RunWalk(_, _, _)
RunWalk(g, pre, w) == IF w.done THEN w ELSE RunWalk(g, pre, WalkIter(g, pre, w))

\* the condition of lines 135-137
IsCandidate(cell, pre) ==
    /\ cell.kind = "LETTER"
    /\ cell.is_starting_point
    /\ cell.solution = pre[1]

---------------------------------------------------------------------------
(* map_clues: one clue line (lines 130-188)                                *)

\* the cells in the order of the two enumerate loops (lines 133-134)
RECURSIVE RowPositions(_, _, _)
RowPositions(g, r, c) ==
    IF c > Len(g[r]) THEN <<>> ELSE <<<<r, c>>>> \o RowPositions(g, r, c + 1)

RECURSIVE ScanOrderFrom(_, _)
ScanOrderFrom(g, r) ==
    IF r > Len(g) THEN <<>> ELSE RowPositions(g, r, 1) \o ScanOrderFrom(g, r + 1)

ScanOrder(g) == ScanOrderFrom(g, 1)

\* lines 175-182 without the test of mapped_clue (lines 176-177)
AcceptCandidate_NoAmbiguityCheck(cell, clue_text, w, st) ==
    IF cell.starting_point_num \in st.used
    THEN [st EXCEPT !.error = "starting point already used"]
    ELSE [st EXCEPT !.used = @ \cup {cell.starting_point_num},
                    !.clues = Append(@, [starting_point_num |-> cell.starting_point_num,
                                         clue_text |-> clue_text,
                                         word_length |-> w.word_length]),
                    !.mapped_clue = TRUE]

\* lines 175-182 for a candidate whose walk w kept right_word: st holds
\* mapped_clue, used_starting_points, clues and the exception raised
AcceptCandidate(cell, clue_text, w, st) ==
    IF st.mapped_clue THEN [st EXCEPT !.error = "matches multiple prefixes"]
    ELSE IF cell.starting_point_num \in st.used
    THEN [st EXCEPT !.error = "starting point already used"]
    ELSE [st EXCEPT !.used = @ \cup {cell.starting_point_num},
                    !.clues = Append(@, [starting_point_num |-> cell.starting_point_num,
                                         clue_text |-> clue_text,
                                         word_length |-> w.word_length]),
                    !.mapped_clue = TRUE]

\* the two enumerate loops over the cells still to visit; an exception ends them
RECURSIVE ScanCells(_, _, _, _, _, _)
ScanCells(g, pre, clue_text, dir, todo, st) ==
    IF todo = <<>> \/ st.error # "none" THEN st
    ELSE LET cell == g[Head(todo)[1]][Head(todo)[2]]
             w == RunWalk(g, pre, WalkStart(Head(todo)[1], Head(todo)[2], dir))
         IN ScanCells(g, pre, clue_text, dir, Tail(todo),
                      IF IsCandidate(cell, pre) /\ w.right_word
                      THEN AcceptCandidate(cell, clue_text, w, st)
                      ELSE st)

\* input_clue.split(':', 1): the text before the first ':' and the text after it
RECURSIVE BeforeColon(_)
BeforeColon(s) ==
    IF s = <<>> \/ Head(s) = ":" THEN <<>> ELSE <<Head(s)>> \o BeforeColon(Tail(s))

AfterColon(s) == SubSeq(s, Len(BeforeColon(s)) + 2, Len(s))

\* the body of the for loop of line 129 for one clue line
MapOneClue(g, input_clue, dir, used, cl) ==
    LET st == ScanCells(g, UpperSeq(BeforeColon(input_clue)), AfterColon(input_clue),
                        dir, ScanOrder(g),
                        [mapped_clue |-> FALSE, used |-> used, clues |-> cl,
                         error |-> "none"])
    IN IF st.error = "none" /\ ~st.mapped_clue
       THEN [st EXCEPT !.error = "clue was not mapped"]
       ELSE st

\* the list with e put before the first entry that is greater
RECURSIVE InsertSorted(_, _)
InsertSorted(e, s) ==
    IF s = <<>> THEN <<e>>
    ELSE IF e.starting_point_num < Head(s).starting_point_num THEN <<e>> \o s
    ELSE <<Head(s)>> \o InsertSorted(e, Tail(s))

\* the list returned as it was built
Sorted_NoSort(s) == s

\* sorted(clues) (line 189): by starting_point_num; the second component of the
\* tuples decides between equal numbers only, and equal numbers are left in
\* the order they came
RECURSIVE Sorted(_)
Sorted(s) == IF s = <<>> THEN <<>> ELSE InsertSorted(s[Len(s)], Sorted(SubSeq(s, 1, Len(s) - 1)))

---------------------------------------------------------------------------
(* parse_crossword and map_clues as actions                                *)

\* the prefixes as written in the clue lines: the letter b, which begins no
\* word of the grids, and A followed by up to MaxPrefixLen - 1 characters
Prefixes == {<<"b">>} \cup
            {<<"A">> \o t : t \in UNION {[1..k -> PrefixChars] : k \in 0..(MaxPrefixLen - 1)}}
\* the clue lines, PREFIX:TEXT
ClueLines == {p \o <<":">> \o ClueBody : p \in Prefixes}

\* one set of consumed numbers for both passes
FirstUsedStartingPoints_Shared(left_over) == left_over

\* the set map_clues starts with (line 128); its argument is the set the call
\* before ended with
FirstUsedStartingPoints(left_over) == {}

\* map_clues is called (line 50 after parse_grid, line 51 after the first
\* call has returned): lines 127-128
MapCluesBegin ==
    /\ pc \in {"parsed", "mapped_h"}
    /\ direction' = IF pc = "parsed" THEN "HORIZONTAL" ELSE "VERTICAL"
    /\ clues' = <<>>
    /\ used_starting_points' = FirstUsedStartingPoints(used_starting_points)
    /\ lines_read' = 0
    /\ prefix' = <<>>
    /\ pc' = "map"
    /\ UNCHANGED <<input_grid, grid, next_starting_point_num, puzzles,
                   clues_horizontal, clues_vertical, error, walk>>

\* the for loop of line 129 takes the next clue line and maps it (lines
\* 130-188); an exception ends the program
MapClueLine ==
    /\ pc = "map"
    /\ lines_read < MaxClues
    /\ \E input_clue \in ClueLines :
          LET st == MapOneClue(grid, input_clue, direction, used_starting_points, clues)
          IN /\ prefix' = UpperSeq(BeforeColon(input_clue))
             /\ clues' = st.clues
             /\ used_starting_points' = st.used
             /\ error' = st.error
             /\ pc' = IF st.error = "none" THEN "map" ELSE "error"
    /\ lines_read' = lines_read + 1
    /\ UNCHANGED <<input_grid, grid, next_starting_point_num, puzzles, direction,
                   clues_horizontal, clues_vertical, walk>>

\* the clue lines are used up: return sorted(clues) (line 189) into
\* cw.clues_horizontal (line 50) or cw.clues_vertical (line 51). split('\n')
\* gives at least one line.
MapCluesReturn ==
    /\ pc = "map"
    /\ lines_read >= 1
    /\ IF direction = "HORIZONTAL"
       THEN /\ clues_horizontal' = Sorted(clues)
            /\ pc' = "mapped_h"
            /\ UNCHANGED clues_vertical
       ELSE /\ clues_vertical' = Sorted(clues)
            /\ pc' = "done"
            /\ UNCHANGED clues_horizontal
    /\ UNCHANGED <<input_grid, grid, next_starting_point_num, puzzles, direction,
                   lines_read, prefix, clues, used_starting_points, error, walk>>

ParseGrid == ParseGridOver(MapTexts)
Next == ParseGrid \/ MapCluesBegin \/ MapClueLine \/ MapCluesReturn
Spec == Init /\ [][Next]_vars

---------------------------------------------------------------------------
(* The walk of one candidate, iteration by iteration                       *)

\* lines 135-142: some clue prefix and direction, and a cell that passes the
\* test of lines 135-137
WalkBegin ==
    /\ pc = "parsed"
    /\ \E raw \in Prefixes, dir \in {"HORIZONTAL", "VERTICAL"} :
          \E r \in 1..Len(grid) : \E c \in 1..Len(grid[r]) :
              /\ IsCandidate(grid[r][c], UpperSeq(raw))
              /\ prefix' = UpperSeq(raw)
              /\ direction' = dir
              /\ walk' = WalkStart(r, c, dir)
    /\ pc' = "walk"
    /\ UNCHANGED <<input_grid, grid, next_starting_point_num, puzzles, lines_read,
                   clues, used_starting_points, clues_horizontal, clues_vertical,
                   error>>

\* one iteration of the for loop of line 143
WalkStep ==
    /\ pc = "walk"
    /\ ~walk.done
    /\ walk' = WalkIter(grid, prefix, walk)
    /\ UNCHANGED <<pc, input_grid, grid, next_starting_point_num, puzzles, direction,
                   lines_read, prefix, clues, used_starting_points, clues_horizontal,
                   clues_vertical, error>>

\* the loop is left (line 175); the scan goes on to another cell
WalkEnd ==
    /\ pc = "walk"
    /\ walk.done
    /\ pc' = "parsed"
    /\ walk' = NoWalk
    /\ prefix' = <<>>
    /\ direction' = "none"
    /\ UNCHANGED <<input_grid, grid, next_starting_point_num, puzzles, lines_read,
                   clues, used_starting_points, clues_horizontal, clues_vertical,
                   error>>

WalkNext == ParseGrid \/ WalkBegin \/ WalkStep \/ WalkEnd
WalkSpec == Init /\ [][WalkNext]_vars

---------------------------------------------------------------------------
(* Claims about parse_grid                                                 *)

InputLines == Split(input_grid, NL)
LongestLine == MaxLineLength(InputLines)
PaddedLine(r) == InputLines[r] \o Spaces(LongestLine - Len(InputLines[r]))

\* Position j of a line holds a glyph that modifies the cell before it: it is
\* a modifier glyph, and the position before it is a cell (is not itself such
\* a glyph).
RECURSIVE Consumed(_, _)
Consumed(line, j) ==
    /\ j >= 2
    /\ line[j] \in Glyphs
    /\ ~Consumed(line, j - 1)

ConsumedCount(line) == Cardinality({j \in 1..Len(line) : Consumed(line, j)})

\* the positions of a line that are cells, in order
RECURSIVE CellPositionsFrom(_, _)
CellPositionsFrom(line, j) ==
    IF j > Len(line) THEN <<>>
    ELSE IF Consumed(line, j) THEN CellPositionsFrom(line, j + 1)
    ELSE <<j>> \o CellPositionsFrom(line, j + 1)

CellPositions(line) == CellPositionsFrom(line, 1)

RECURSIVE Flatten(_)
Flatten(g) == IF g = <<>> THEN <<>> ELSE Head(g) \o Flatten(Tail(g))

IsStart(cell) == cell.is_starting_point
StartingCells == SelectSeq(Flatten(grid), IsStart)

HasFlag(cell) ==
    cell.wall_right \/ cell.wall_bottom \/ cell.arrow_down \/ cell.arrow_right

\* C1 as claimed: every row of the parsed grid has as many cells as the
\* longest input line has characters, modifier glyphs or not.
C1_RowsAsLongestLine ==
    pc = "parsed" =>
        \A r \in 1..Len(grid) : Len(grid[r]) = LongestLine

\* C1, amended: the grid has one row per input line, and row r has as many
\* cells as the longest input line has characters less the modifier glyphs
\* consumed in line r; so a text without modifier glyphs gives rows that all
\* have the length of the longest line.
C1_RowsLessConsumedGlyphs ==
    pc = "parsed" =>
        /\ Len(grid) = Len(InputLines)
        /\ \A r \in 1..Len(grid) :
              Len(grid[r]) = LongestLine - ConsumedCount(PaddedLine(r))
        /\ ((\A j \in 1..Len(input_grid) : input_grid[j] \notin Glyphs) =>
              \A r \in 1..Len(grid) : Len(grid[r]) = LongestLine)

\* a padded short line above a line that lost a cell to a glyph: rows of
\* different lengths
C1_Witness ==
    /\ pc = "parsed"
    /\ Len(grid) = 2
    /\ Len(InputLines[1]) < Len(InputLines[2])
    /\ Len(grid[1]) = LongestLine
    /\ Len(grid[2]) < LongestLine

\* C5: the starting points of a parsed grid are numbered 1, 2, ..., k in
\* row-major order, every other cell has number -1, and this holds for every
\* call of parse_grid, the second puzzle of a run included.
C5_DenseNumbering ==
    pc = "parsed" =>
        /\ \A k \in 1..Len(StartingCells) : StartingCells[k].starting_point_num = k
        /\ \A r \in 1..Len(grid) : \A c \in 1..Len(grid[r]) :
              ~grid[r][c].is_starting_point => grid[r][c].starting_point_num = -1
        /\ next_starting_point_num = Len(StartingCells) + 1

\* the second puzzle of a run, with two starting points of its own, parsed
\* after a puzzle that had starting points too
C5_Witness ==
    /\ pc = "parsed"
    /\ puzzles = 2
    /\ Len(StartingCells) >= 2

\* C9 as claimed: no OUTSIDE cell of a parsed grid carries a wall or an arrow.
C9_OutsideCellsBare ==
    pc = "parsed" =>
        \A r \in 1..Len(grid) : \A c \in 1..Len(grid[r]) :
            grid[r][c].kind = "OUTSIDE" => ~HasFlag(grid[r][c])

\* C9, amended: parse_grid consumes a modifier glyph after a cell of any
\* kind, OUTSIDE included. The k-th cell of a row is the k-th position of the
\* line that is not a consumed glyph; its kind is that of the character
\* there, and it carries the flag of the glyph that follows that position,
\* if one does, and no other flag.
C9_GlyphAfterAnyCell ==
    pc = "parsed" =>
        \A r \in 1..Len(grid) :
            LET line == PaddedLine(r)
                pos == CellPositions(line)
            IN /\ Len(grid[r]) = Len(pos)
               /\ \A k \in 1..Len(pos) :
                     LET p == pos[k]
                         g == IF p + 1 <= Len(line) /\ line[p + 1] \in Glyphs
                              THEN line[p + 1] ELSE "no glyph"
                         cell == grid[r][k]
                     IN /\ cell.kind = (IF line[p] = " " THEN "OUTSIDE"
                                         ELSE IF line[p] = "#" THEN "BLOCKED"
                                         ELSE "LETTER")
                        /\ cell.wall_right = (g = "|")
                        /\ cell.wall_bottom = (g = "-")
                        /\ cell.arrow_down = (g = ")")
                        /\ cell.arrow_right = (g = "(")

\* an OUTSIDE cell that took the wall of the glyph after it
C9_Witness ==
    /\ pc = "parsed"
    /\ \E r \in 1..Len(grid) : \E c \in 1..Len(grid[r]) :
          grid[r][c].kind = "OUTSIDE" /\ grid[r][c].wall_right

---------------------------------------------------------------------------
(* Claims about map_clues                                                  *)

Rows == Len(grid)
Cols == MaxLineLength(grid)

Positions == {<<r, c>> : r \in 1..Rows, c \in 1..Cols}
InGrid(p) == p[1] <= Rows /\ p[2] <= Len(grid[p[1]])
CellAt(p) == grid[p[1]][p[2]]

\* the cell that carries starting point number n
StartPos(n) ==
    CHOOSE p \in Positions :
        InGrid(p) /\ CellAt(p).is_starting_point /\ CellAt(p).starting_point_num = n

\* The run of a clue as the specification words it: from cell p in direction
\* dir; a cell with arrow_down sends the run downward and a cell with
\* arrow_right rightward, from that cell on; the run ends at, and includes, a
\* cell with wall_right while moving horizontally or wall_bottom while moving
\* vertically, and otherwise ends before the first position that is outside
\* the grid or not a LETTER.
RECURSIVE Run(_, _)
Run(p, dir) ==
    IF ~InGrid(p) \/ CellAt(p).kind # "LETTER" THEN <<>>
    ELSE LET d == IF CellAt(p).arrow_down THEN "VERTICAL"
                  ELSE IF CellAt(p).arrow_right THEN "HORIZONTAL"
                  ELSE dir
             walled == IF d = "HORIZONTAL" THEN CellAt(p).wall_right
                       ELSE CellAt(p).wall_bottom
             next == IF d = "HORIZONTAL" THEN <<p[1], p[2] + 1>> ELSE <<p[1] + 1, p[2]>>
         IN IF walled THEN <<p>> ELSE <<p>> \o Run(next, d)

Nums(cl) == {cl[k].starting_point_num : k \in 1..Len(cl)}

LengthsAreRuns(cl, dir) ==
    \A k \in 1..Len(cl) :
        cl[k].word_length = Len(Run(StartPos(cl[k].starting_point_num), dir))

StrictlyAscending(cl) ==
    \A k \in 1..Len(cl) - 1 : cl[k].starting_point_num < cl[k + 1].starting_point_num

\* the candidate cells of the scan whose walk succeeds for the current clue
\* line, in scan order
SucceedsAt(p) ==
    /\ IsCandidate(CellAt(p), prefix)
    /\ RunWalk(grid, prefix, WalkStart(p[1], p[2], direction)).right_word

Successful == SelectSeq(ScanOrder(grid), SucceedsAt)

\* a clue line has just been handled, with or without an exception
LineHandled == pc \in {"map", "error"} /\ lines_read >= 1

\* C2 as claimed: the run of a clue that has just been mapped is at least as
\* long as the clue's prefix, and its cells spell the prefix.
C2_RunCoversPrefix ==
    (pc = "map" /\ lines_read >= 1) =>
        LET run == Run(StartPos(clues[Len(clues)].starting_point_num), direction)
        IN /\ Len(run) >= Len(prefix)
           /\ \A k \in 1..Len(prefix) :
                 k <= Len(run) => CellAt(run[k]).solution = prefix[k]

\* C3 as claimed: no clue that map_clues produces has word length 1.
C3_NoOneLetterWord ==
    /\ \A k \in 1..Len(clues) : clues[k].word_length # 1
    /\ \A k \in 1..Len(clues_horizontal) : clues_horizontal[k].word_length # 1
    /\ \A k \in 1..Len(clues_vertical) : clues_vertical[k].word_length # 1

\* C4: the word length of every mapped clue is the number of cells of its
\* run: the run from the clue's starting cell in the direction of the pass,
\* turned by arrows and ended by walls.
C4_WordLengthIsRunLength ==
    /\ (direction # "none" => LengthsAreRuns(clues, direction))
    /\ LengthsAreRuns(clues_horizontal, "HORIZONTAL")
    /\ LengthsAreRuns(clues_vertical, "VERTICAL")

\* a horizontal clue whose run an arrow on its first cell has turned downward
C4_Witness ==
    /\ pc = "mapped_h"
    /\ \E k \in 1..Len(clues_horizontal) :
          LET p == StartPos(clues_horizontal[k].starting_point_num)
          IN /\ CellAt(p).arrow_down
             /\ clues_horizontal[k].word_length = 2
             /\ CellAt(<<p[1] + 1, p[2]>>).kind = "LETTER"

\* C6: a list that map_clues returns has one entry per clue line read, and
\* its starting point numbers are strictly ascending (so no two are equal).
C6_OneEntryPerLineAscending ==
    /\ (pc = "mapped_h" => Len(clues_horizontal) = lines_read)
    /\ (pc = "done" => Len(clues_vertical) = lines_read)
    /\ StrictlyAscending(clues_horizontal)
    /\ StrictlyAscending(clues_vertical)

\* two clue lines given in the other order than their starting points
C6_Witness ==
    /\ pc = "mapped_h"
    /\ lines_read = 2
    /\ Len(clues_horizontal) = 2
    /\ clues # clues_horizontal

\* C7: (a) when the first candidate that succeeds for a clue line carries a
\* number that an earlier clue line of the same call has consumed, the call
\* ends with 'starting point already used'; (b) after an exception no list
\* is returned; (c) every call starts with an empty set of consumed numbers,
\* and (d) 'starting point already used' is raised only for a number that a
\* clue of this call holds, never for one consumed in the other pass only.
C7_Reused ==
    /\ (LineHandled /\ Successful # <<>>
        /\ CellAt(Successful[1]).starting_point_num
             \in Nums(SubSeq(clues, 1, lines_read - 1)))
       => (pc = "error" /\ error = "starting point already used")
    /\ pc = "error" =>
          /\ clues_vertical = <<>>
          /\ (direction = "HORIZONTAL" => clues_horizontal = <<>>)
    /\ (pc = "map" /\ lines_read = 0) => used_starting_points = {}
    /\ (pc = "error" /\ error = "starting point already used") =>
          /\ Successful # <<>>
          /\ CellAt(Successful[1]).starting_point_num \in Nums(clues)

\* the vertical pass has consumed a number that the horizontal pass consumed
\* too, and then another clue line resolved to a consumed number
C7_Witness ==
    /\ pc = "error"
    /\ error = "starting point already used"
    /\ direction = "VERTICAL"
    /\ Nums(clues) \cap Nums(clues_horizontal) # {}

\* C8 as claimed: a clue line for which more than one candidate succeeds ends
\* the call with 'matches multiple prefixes'.
C8_AmbiguousRaisesMultiple ==
    (LineHandled /\ Len(Successful) > 1) =>
        (pc = "error" /\ error = "matches multiple prefixes")

\* C8, amended: a clue line for which more than one candidate succeeds ends
\* the call with an exception: 'starting point already used' when the number
\* of the first successful candidate was consumed by an earlier clue line,
\* and 'matches multiple prefixes' otherwise.
C8_AmbiguousRaises ==
    (LineHandled /\ Len(Successful) > 1) =>
        /\ pc = "error"
        /\ error = (IF CellAt(Successful[1]).starting_point_num
                          \in Nums(SubSeq(clues, 1, lines_read - 1))
                    THEN "starting point already used"
                    ELSE "matches multiple prefixes")

\* the second clue line has two successful candidates, none consumed before
C8_Witness ==
    /\ pc = "error"
    /\ error = "matches multiple prefixes"
    /\ lines_read = 2
    /\ Len(Successful) > 1

---------------------------------------------------------------------------
(* Claims about the walk                                                   *)

\* C10: an iteration that does not end the walk moves one cell right or one
\* cell down, so the walk never comes back to a cell; it counts at most
\* Rows + Cols - 1 cells, and the range of the for loop never runs out.
C10_WalkAdvances ==
    /\ [][(pc = "walk" /\ pc' = "walk" /\ ~walk'.done) =>
            /\ walk'.letter_row_idx >= walk.letter_row_idx
            /\ walk'.letter_col_idx >= walk.letter_col_idx
            /\ walk'.letter_row_idx + walk'.letter_col_idx
                 = walk.letter_row_idx + walk.letter_col_idx + 1
            /\ walk'.i = walk.i + 1]_vars
    /\ [](pc = "walk" =>
            /\ walk.word_length <= Rows + Cols - 1
            /\ walk.i <= Rows + Cols - 1
            /\ (Rows + Cols <= StepCap => walk.i < StepCap))

\* a finished walk of three cells that an arrow has turned
C10_Witness ==
    /\ pc = "walk"
    /\ walk.done
    /\ walk.word_length = 3
    /\ walk.current_direction # direction

====
